---- MODULE Spec2Model ----
(***************************************************************************)
(* ignite::odbc::EndPoint (modules/platforms/cpp/odbc/include/ignite/odbc/ *)
(* end_point.h): a struct of a std::string host and a uint16_t port with   *)
(* a default constructor and a (host, port) constructor.  The members are  *)
(* public and non-const, and the struct has the implicit copy constructor, *)
(* copy assignment and destructor.                                         *)
(*                                                                         *)
(* A string is a sequence of one-character strings.  A std::string member  *)
(* is a handle to a buffer of the heap that it owns; an EndPoint object is *)
(* a record of its host handle and its port.                               *)
(***************************************************************************)
EXTENDS Integers, Sequences, FiniteSets

VARIABLES
    heap,      \* buffer -> characters: the storage of the host strings
    objs,      \* the EndPoint objects in scope: [host: buffer, port]
    given,     \* history: the host and port each object was last given
    lastOp,    \* history: the last operation and its arguments
    pc,        \* where each reading thread is
    got,       \* what each reading thread has read
    set,       \* an ordered set of endpoints
    inserted,  \* history: the endpoints inserted into the set
    parsed     \* the results of the parser, in order

vars == <<heap, objs, given, lastOp, pc, got, set, inserted, parsed>>

(* ------------------------------ bounds -------------------------------- *)

MaxObjects == 2

NumReaders == 2

MaxInserts == 3

MaxAddrs == 2

(* ------------------------------ inputs -------------------------------- *)

\* Host strings: empty, and strings that differ only in letter case.
Hosts == {<<>>, <<"a">>, <<"A">>, <<"b">>}

\* Integers a caller passes where a uint16_t is expected; 65536 does not fit.
IntArgs == {0, 1, 2, 65535, 65536}

(* ---------------------------- uint16_t -------------------------------- *)

Uint16Mod == 65536

Uint16 == 0 .. (Uint16Mod - 1)

ToUint16Unchecked(n) == n

\* Conversion of an integer to the uint16_t parameter or member.
ToUint16(n) == n % Uint16Mod

(* ---------------------------- characters ------------------------------ *)

\* The characters the inputs use, in increasing order of character code.
Alphabet == <<".", "0", "1", "2", "3", "4", "5", "6", "7", "8", "9", ":",
              "A", "B", "a", "b", "c", "e", "l", "m", "o", "p", "x">>

Ord(c) == CHOOSE i \in 1 .. Len(Alphabet) : Alphabet[i] = c

ToLowerChar(c) == IF c = "A" THEN "a" ELSE IF c = "B" THEN "b" ELSE c

ToLower(s) == [i \in 1 .. Len(s) |-> ToLowerChar(s[i])]

(* --------------------------- constructors ----------------------------- *)

EndPoint0Unset == [host |-> <<>>, port |-> 10800]

\* EndPoint(): host() is the empty string, port() is value-initialised to 0.
EndPoint0 == [host |-> <<>>, port |-> 0]

EndPoint2Folding(host, port) == [host |-> ToLower(host), port |-> port]

EndPoint2NoPort(host, port) == [host |-> host, port |-> 0]

\* EndPoint(host, port): the member initialisers host(host), port(port).
EndPoint2(host, port) == [host |-> host, port |-> port]

EndPoint2BodyValidating(host, port) == host # <<>> /\ port # 0

\* The constructor bodies are "// No-op.": nothing is checked or thrown.
EndPoint2Body(host, port) == TRUE

EndPoint0Body == TRUE

(* ------------------------------ state --------------------------------- *)

BufIds == 1 .. (MaxObjects + 1)

\* The lowest buffer that is not allocated.
Alloc == CHOOSE b \in BufIds \ DOMAIN heap :
            \A c \in BufIds \ DOMAIN heap : b <= c

HeapWith(b, s) == [c \in DOMAIN heap \cup {b} |-> IF c = b THEN s ELSE heap[c]]

HeapWithout(b) == [c \in DOMAIN heap \ {b} |-> heap[c]]

Live == 1 .. Len(objs)

\* The value of object i: the contents of its host string, and its port.
View(i) == [host |-> heap[objs[i].host], port |-> objs[i].port]

Op(kind, slot, src, h, n) ==
    [kind |-> kind, slot |-> slot, src |-> src, h |-> h, n |-> n]

IdleReaders == [t \in 1 .. NumReaders |-> "idle"]

NothingRead == [t \in 1 .. NumReaders |->
                  [ptr |-> 0, hostRead |-> FALSE, host |-> <<>>,
                   portRead |-> FALSE, port |-> 0]]

Init ==
    /\ heap = <<>>
    /\ objs = <<>>
    /\ given = <<>>
    /\ lastOp = Op("Init", 0, 0, <<>>, 0)
    /\ pc = IdleReaders
    /\ got = NothingRead
    /\ set = <<>>
    /\ inserted = <<>>
    /\ parsed = <<>>

Others == <<pc, got, set, inserted, parsed>>

(* ---------------------------- operations ------------------------------ *)

\* An object enters scope, built by the default constructor.
DefaultConstruct ==
    /\ Len(objs) < MaxObjects
    /\ EndPoint0Body
    /\ LET e == EndPoint0
           b == Alloc
       IN /\ heap' = HeapWith(b, e.host)
          /\ objs' = Append(objs, [host |-> b, port |-> e.port])
          /\ given' = Append(given, [host |-> <<>>, port |-> 0])
          /\ lastOp' = Op("DefaultConstruct", Len(objs) + 1, 0, <<>>, 0)
    /\ UNCHANGED Others

\* An object enters scope, built by EndPoint(h, n); n is converted to the
\* uint16_t parameter at the call.
Construct(h, n) ==
    /\ Len(objs) < MaxObjects
    /\ EndPoint2Body(h, ToUint16(n))
    /\ LET e == EndPoint2(h, ToUint16(n))
           b == Alloc
       IN /\ heap' = HeapWith(b, e.host)
          /\ objs' = Append(objs, [host |-> b, port |-> e.port])
          /\ given' = Append(given, [host |-> h, port |-> ToUint16(n)])
          /\ lastOp' = Op("Construct", Len(objs) + 1, 0, h, n)
    /\ UNCHANGED Others

ShallowCopyConstruct(i) ==
    /\ i \in Live
    /\ Len(objs) < MaxObjects
    /\ heap' = heap
    /\ objs' = Append(objs, objs[i])
    /\ given' = Append(given, given[i])
    /\ lastOp' = Op("CopyConstruct", Len(objs) + 1, i, <<>>, 0)
    /\ UNCHANGED Others

MovingCopyConstruct(i) ==
    /\ i \in Live
    /\ Len(objs) < MaxObjects
    /\ LET b == Alloc
       IN /\ heap' = [HeapWith(b, heap[objs[i].host]) EXCEPT ![objs[i].host] = <<>>]
          /\ objs' = Append(objs, [host |-> b, port |-> objs[i].port])
    /\ given' = Append(given, given[i])
    /\ lastOp' = Op("CopyConstruct", Len(objs) + 1, i, <<>>, 0)
    /\ UNCHANGED Others

\* The implicit copy constructor: each member is copy-constructed; the copy
\* of a std::string has a buffer of its own holding the same characters.
CopyConstruct(i) ==
    /\ i \in Live
    /\ Len(objs) < MaxObjects
    /\ LET b == Alloc
       IN /\ heap' = HeapWith(b, heap[objs[i].host])
          /\ objs' = Append(objs, [host |-> b, port |-> objs[i].port])
    /\ given' = Append(given, given[i])
    /\ lastOp' = Op("CopyConstruct", Len(objs) + 1, i, <<>>, 0)
    /\ UNCHANGED Others

\* The implicit copy assignment objs[i] = objs[j]: each member is assigned;
\* std::string assignment copies the characters into the target's buffer.
CopyAssign(i, j) ==
    /\ i \in Live
    /\ j \in Live
    /\ heap' = [heap EXCEPT ![objs[i].host] = heap[objs[j].host]]
    /\ objs' = [objs EXCEPT ![i].port = objs[j].port]
    /\ given' = [given EXCEPT ![i] = given[j]]
    /\ lastOp' = Op("CopyAssign", i, j, <<>>, 0)
    /\ UNCHANGED Others

\* objs[i].host = h: the member is public and not const.
AssignHost(i, h) ==
    /\ i \in Live
    /\ heap' = [heap EXCEPT ![objs[i].host] = h]
    /\ given' = [given EXCEPT ![i].host = h]
    /\ lastOp' = Op("AssignHost", i, 0, h, 0)
    /\ UNCHANGED <<objs, Others>>

\* objs[i].port = n: the member is public and not const; n is converted.
AssignPort(i, n) ==
    /\ i \in Live
    /\ objs' = [objs EXCEPT ![i].port = ToUint16(n)]
    /\ given' = [given EXCEPT ![i].port = ToUint16(n)]
    /\ lastOp' = Op("AssignPort", i, 0, <<>>, n)
    /\ UNCHANGED <<heap, Others>>

\* The newest object leaves scope: the implicit destructor destroys the
\* host string, which releases its buffer.
Destroy ==
    /\ Len(objs) > 0
    /\ heap' = HeapWithout(objs[Len(objs)].host)
    /\ objs' = SubSeq(objs, 1, Len(objs) - 1)
    /\ given' = SubSeq(given, 1, Len(given) - 1)
    /\ lastOp' = Op("Destroy", Len(objs), 0, <<>>, 0)
    /\ UNCHANGED Others

Next ==
    \/ DefaultConstruct
    \/ \E h \in Hosts, n \in IntArgs : Construct(h, n)
    \/ \E i \in 1 .. MaxObjects : CopyConstruct(i)
    \/ \E i, j \in 1 .. MaxObjects : CopyAssign(i, j)
    \/ \E i \in 1 .. MaxObjects, h \in Hosts : AssignHost(i, h)
    \/ \E i \in 1 .. MaxObjects, n \in IntArgs : AssignPort(i, n)
    \/ Destroy

Spec == Init /\ [][Next]_vars

(* ------------------------ concurrent readers -------------------------- *)

\* One endpoint, built by EndPoint(h, n), shared by NumReaders threads.
ReadersInit ==
    /\ \E h \in Hosts, n \in IntArgs :
          LET e == EndPoint2(h, ToUint16(n))
          IN /\ heap = <<e.host>>
             /\ objs = <<[host |-> 1, port |-> e.port]>>
             /\ given = <<[host |-> h, port |-> ToUint16(n)]>>
             /\ lastOp = Op("Construct", 1, 0, h, n)
    /\ pc = IdleReaders
    /\ got = NothingRead
    /\ set = <<>>
    /\ inserted = <<>>
    /\ parsed = <<>>

Shared == <<heap, objs, given, lastOp, set, inserted, parsed>>

\* Thread t starts reading the host member: it loads the string's handle.
LoadHostHandle(t) ==
    /\ pc[t] = "idle"
    /\ pc' = [pc EXCEPT ![t] = "host"]
    /\ got' = [got EXCEPT ![t].ptr = objs[1].host]
    /\ UNCHANGED Shared

MovingLoadHostChars(t) ==
    /\ pc[t] = "host"
    /\ pc' = [pc EXCEPT ![t] = "idle"]
    /\ got' = [got EXCEPT ![t].host = heap[got[t].ptr], ![t].hostRead = TRUE]
    /\ heap' = [heap EXCEPT ![got[t].ptr] = <<>>]
    /\ UNCHANGED <<objs, given, lastOp, set, inserted, parsed>>

\* Thread t finishes reading the host member: it loads the characters.
LoadHostChars(t) ==
    /\ pc[t] = "host"
    /\ pc' = [pc EXCEPT ![t] = "idle"]
    /\ got' = [got EXCEPT ![t].host = heap[got[t].ptr], ![t].hostRead = TRUE]
    /\ UNCHANGED Shared

\* Thread t reads the port member.
ReadPort(t) ==
    /\ pc[t] = "idle"
    /\ got' = [got EXCEPT ![t].port = objs[1].port, ![t].portRead = TRUE]
    /\ UNCHANGED <<pc, Shared>>

ReadersNext ==
    \E t \in 1 .. NumReaders :
        \/ LoadHostHandle(t)
        \/ LoadHostChars(t)
        \/ ReadPort(t)

SpecReaders == ReadersInit /\ [][ReadersNext]_vars

(* ---------------- equality (spec section 4.1, Equality) ---------------- *)

\* The source declares no operator==; equality of two endpoint values is
\* the conjunction of host equality (exact) and port equality.
EndPointEq(a, b) == a.host = b.host /\ a.port = b.port

(* ------------- ordering and sets (spec section 4.1, Ordering) ---------- *)

RECURSIVE StrLess(_, _)
\* Lexicographic order of two strings by character code.
StrLess(s, t) ==
    IF t = <<>> THEN FALSE
    ELSE IF s = <<>> THEN TRUE
    ELSE IF s[1] # t[1] THEN Ord(s[1]) < Ord(t[1])
    ELSE StrLess(Tail(s), Tail(t))

\* The source declares no operator<; the recommended order is by host,
\* then by port.
Less(a, b) ==
    \/ StrLess(a.host, b.host)
    \/ (a.host = b.host /\ a.port < b.port)

\* Insertion into an ordered set (a sorted sequence without equivalent
\* elements): e is dropped when an element equivalent to it is present.
SetInsert(s, e) ==
    IF \E k \in 1 .. Len(s) : ~Less(s[k], e) /\ ~Less(e, s[k])
    THEN s
    ELSE LET k == Cardinality({m \in 1 .. Len(s) : Less(s[m], e)})
         IN SubSeq(s, 1, k) \o <<e>> \o SubSeq(s, k + 1, Len(s))

\* EndPoint(h, n) is built and inserted into the set.
Insert(h, n) ==
    /\ Len(inserted) < MaxInserts
    /\ set' = SetInsert(set, EndPoint2(h, ToUint16(n)))
    /\ inserted' = Append(inserted, [host |-> h, port |-> ToUint16(n)])
    /\ UNCHANGED <<heap, objs, given, lastOp, pc, got, parsed>>

SetNext == \E h \in Hosts, n \in IntArgs : Insert(h, n)

SpecSet == Init /\ [][SetNext]_vars

(* ------------- parsing (spec section 4.1, Formatting/parsing) ---------- *)

ExampleCom == <<"e", "x", "a", "m", "p", "l", "e", ".", "c", "o", "m">>

Text33000 == ExampleCom \o <<":", "3", "3", "0", "0", "0">>

Text99999 == ExampleCom \o <<":", "9", "9", "9", "9", "9">>

\* Address texts handed to the parser.
Texts == {Text33000, Text99999,
          <<"a", ":", "0">>, <<"A", ":", "6", "5", "5", "3", "5">>,
          <<"a", ":", "6", "5", "5", "3", "6">>, <<"a", ":">>, <<"a">>,
          <<"a", ":", "1", "x">>, <<"a", ":", "b", ":", "2">>,
          <<":", "1">>, <<>>}

Digits == {"0", "1", "2", "3", "4", "5", "6", "7", "8", "9"}

\* The decimal digits are consecutive in character code.
DigitVal(c) == Ord(c) - Ord("0")

RECURSIVE DecimalValue(_)
DecimalValue(s) ==
    IF s = <<>> THEN 0
    ELSE DecimalValue(SubSeq(s, 1, Len(s) - 1)) * 10 + DigitVal(s[Len(s)])

\* The index of the last ':' of the text, 0 when it has none.
LastColon(s) ==
    IF \E i \in 1 .. Len(s) : s[i] = ":"
    THEN CHOOSE i \in 1 .. Len(s) :
            s[i] = ":" /\ \A j \in (i + 1) .. Len(s) : s[j] # ":"
    ELSE 0

HostPart(s) == SubSeq(s, 1, LastColon(s) - 1)

PortPart(s) == SubSeq(s, LastColon(s) + 1, Len(s))

\* The text has the form host:port, with a port of decimal digits.
WellFormed(s) ==
    /\ LastColon(s) > 0
    /\ PortPart(s) # <<>>
    /\ \A i \in 1 .. Len(PortPart(s)) : PortPart(s)[i] \in Digits

\* The parser of the configuration layer: a ParseError and no endpoint for
\* a malformed text or a port out of range, otherwise EndPoint(host, port).
ParseEndPoint(s) ==
    IF WellFormed(s) /\ DecimalValue(PortPart(s)) \in Uint16
    THEN [text |-> s, error |-> FALSE,
          endPoints |-> <<EndPoint2(HostPart(s), ToUint16(DecimalValue(PortPart(s))))>>]
    ELSE [text |-> s, error |-> TRUE, endPoints |-> <<>>]

\* One more address text is parsed.
Parse(s) ==
    /\ Len(parsed) < MaxAddrs
    /\ parsed' = Append(parsed, ParseEndPoint(s))
    /\ UNCHANGED <<heap, objs, given, lastOp, pc, got, set, inserted>>

ParseNext == \E s \in Texts : Parse(s)

SpecParse == Init /\ [][ParseNext]_vars

(* ------------------------------ claims -------------------------------- *)

\* C1: for every host string h (the empty string and strings differing only
\* in letter case included) and every port p in 0..65535, the object built
\* by EndPoint(h, p) has host exactly h and port exactly p.
C1_ConstructRoundTrip ==
    (lastOp.kind = "Construct" /\ lastOp.n \in Uint16)
        => View(lastOp.slot) = [host |-> lastOp.h, port |-> lastOp.n]

C1_Witness ==
    /\ lastOp.kind = "Construct"
    /\ lastOp.slot = 2
    /\ lastOp.h = <<"A">>
    /\ lastOp.n = 65535
    /\ View(1).host = <<"a">>
    /\ View(2) = [host |-> <<"A">>, port |-> 65535]

C3_Equality ==
    /\ \A i, j \in Live :
          EndPointEq(View(i), View(j))
              <=> (given[i].host = given[j].host /\ given[i].port = given[j].port)
    /\ \A i \in Live : EndPointEq(View(i), View(i))
    /\ \A i, j \in Live :
          EndPointEq(View(i), View(j)) => EndPointEq(View(j), View(i))
    /\ \A i, j, k \in Live :
          (EndPointEq(View(i), View(j)) /\ EndPointEq(View(j), View(k)))
              => EndPointEq(View(i), View(k))

C3_Witness ==
    /\ Len(objs) = 2
    /\ lastOp.kind = "Construct"
    /\ given[1] = [host |-> <<"a">>, port |-> 1]
    /\ given[2] = [host |-> <<"A">>, port |-> 1]
    /\ ~EndPointEq(View(1), View(2))

\* C4: the default constructor yields the empty host and port 0, a value
\* equal to the one EndPoint("", 0) builds.
C4_DefaultIsSentinel ==
    lastOp.kind = "DefaultConstruct"
        => /\ View(lastOp.slot).host = <<>>
           /\ View(lastOp.slot).port = 0
           /\ EndPointEq(View(lastOp.slot), EndPoint2(<<>>, ToUint16(0)))

C4_Witness ==
    /\ lastOp.kind = "DefaultConstruct"
    /\ lastOp.slot = Len(objs)
    /\ View(lastOp.slot) = [host |-> <<>>, port |-> 0]

\* C5: construction cannot fail: wherever an object can enter scope, both
\* constructors accept every host (the empty one included) and every port
\* (0 included), and what they build is an endpoint.
C5_ConstructionCannotFail ==
    /\ Len(objs) < MaxObjects
          => /\ ENABLED DefaultConstruct
             /\ \A h \in Hosts, n \in IntArgs : ENABLED Construct(h, n)
    /\ lastOp.kind \in {"Construct", "DefaultConstruct"}
          => View(lastOp.slot) \in [host : Hosts, port : Uint16]

C5_Witness ==
    /\ lastOp.kind = "Construct"
    /\ lastOp.h = <<>>
    /\ lastOp.n = 0
    /\ lastOp.slot = Len(objs)
    /\ View(lastOp.slot) = [host |-> <<>>, port |-> 0]

CopyEqualsSource ==
    lastOp.kind = "CopyConstruct"
        => EndPointEq(View(lastOp.slot), View(lastOp.src))

OwnStorage ==
    /\ \A i \in Live : objs[i].host \in DOMAIN heap
    /\ \A i, j \in Live : i # j => objs[i].host # objs[j].host

\* C6: a copy equals its source, every instance owns its host storage, and
\* an operation applied to one instance leaves the host and port of every
\* other instance unchanged.
C6_CopiesIndependent ==
    [][/\ CopyEqualsSource'
       /\ OwnStorage'
       /\ \A i \in Live :
             (i <= Len(objs') /\ i # lastOp'.slot) => View(i)' = View(i)]_vars

C6_Witness ==
    /\ lastOp.kind = "CopyConstruct"
    /\ lastOp.slot = 2
    /\ lastOp.src = 1
    /\ View(1) = [host |-> <<"a">>, port |-> 1]
    /\ View(2) = View(1)
    /\ objs[1].host # objs[2].host

\* C8: in every reachable state the port of every endpoint is in 0..65535;
\* port 0 is a legal constructed value.
C8_PortRange == \A i \in Live : objs[i].port \in Uint16

C8_Witness ==
    /\ lastOp.kind = "Construct"
    /\ lastOp.n = 65536
    /\ objs[lastOp.slot].port = 0
    /\ \E i \in Live : given[i].port = 65535

\* C7: with only readers sharing an endpoint, under every interleaving each
\* completed read of host and of port returns the value given at
\* construction.
C7_ReadersSeeConstructed ==
    \A t \in 1 .. NumReaders :
        /\ got[t].hostRead => got[t].host = given[1].host
        /\ got[t].portRead => got[t].port = given[1].port

C7_Witness ==
    /\ got[1].hostRead /\ got[1].portRead
    /\ got[2].hostRead /\ got[2].portRead
    /\ pc[2] = "host"
    /\ got[1].host = <<"a">>
    /\ got[2].host = <<"a">>
    /\ got[1].port = 65535
    /\ got[2].port = 65535

\* C9: after any sequence of endpoints is inserted into a set, the size of
\* the set is the number of distinct (host, port) pairs of the sequence;
\* ("a",1), ("a",1), ("b",1) leave 2 elements.
C9_SetDeduplicates ==
    Len(set) = Cardinality({inserted[k] : k \in 1 .. Len(inserted)})

C9_Witness ==
    /\ inserted = <<[host |-> <<"a">>, port |-> 1], [host |-> <<"a">>, port |-> 1],
                    [host |-> <<"b">>, port |-> 1]>>
    /\ Len(set) = 2

\* C10: parsing yields an endpoint only for a port in 0..65535, and then
\* the endpoint of that host and port: "example.com:33000" yields
\* EndPoint("example.com", 33000); "example.com:99999" fails with a
\* ParseError and yields no endpoint (none with port 99999 mod 2^16).
C10_ParseNeverOutOfRange ==
    \A k \in 1 .. Len(parsed) :
        LET r == parsed[k]
        IN /\ r.error <=> r.endPoints = <<>>
           /\ \A m \in 1 .. Len(r.endPoints) :
                 /\ WellFormed(r.text)
                 /\ DecimalValue(PortPart(r.text)) \in Uint16
                 /\ r.endPoints[m].port = DecimalValue(PortPart(r.text))
                 /\ r.endPoints[m].host = HostPart(r.text)
           /\ r.text = Text33000
                 => r.endPoints = <<[host |-> ExampleCom, port |-> 33000]>>
           /\ r.text = Text99999
                 => /\ r.error
                    /\ \A m \in 1 .. Len(r.endPoints) :
                          r.endPoints[m].port # ToUint16(99999)

C10_Witness ==
    /\ Len(parsed) = 2
    /\ parsed[1].text = Text33000
    /\ parsed[1].endPoints = <<[host |-> ExampleCom, port |-> 33000]>>
    /\ parsed[2].text = Text99999
    /\ parsed[2].error

====
